---- MODULE Spec2Model ----
(***************************************************************************)
(* A model of rust/src/lib/nm/query_apply/apply.rs: nm_apply, the          *)
(* Deletion Cascade (delete_ifaces, delete_orphan_ports,                    *)
(* delete_remain_virtual_interface_as_desired) and the Pre-Deactivation     *)
(* Policy (gen_nm_conn_need_to_deactivate_first).                           *)
(*                                                                         *)
(* nm_apply is one sequential routine; every backend call and every call   *)
(* of a collaborator is one step of it, which either succeeds or fails.    *)
(* The backend (NetworkManager) is its set of connection profiles, its     *)
(* active connections and its devices. Every backend call is appended to   *)
(* `log`, with the step of nm_apply that issued it.                        *)
(***************************************************************************)
EXTENDS Naturals, Sequences, FiniteSets, TLC

VARIABLES
    merged,           \* the MergedNetworkState handed to nm_apply
    profiles,         \* backend: the stored connection profiles
    active,           \* backend: uuids of the active connections
    devices,          \* backend: the devices, as <<name, nm type>>
    backend_mptcp,    \* backend: whether it supports MPTCP
    checkpoint,       \* the checkpoint: what nm_apply set on its NmApi, its state
    pc,               \* the position of nm_apply
    res,              \* "running", "ok" or "err": what nm_apply returned
    log,              \* the backend and collaborator calls issued so far
    all_nm_conns,     \* delete_ifaces: connections_get() of line 160
    uuids_to_delete,  \* delete_ifaces: the HashSet of marked uuids
    nm_devs,          \* delete_remain_...: devices_get() of line 236
    todo,             \* the items the current loop still has to visit
    exist_nm_conns,   \* nm_apply: connections_get() of line 60
    nm_acs,           \* nm_apply: active_connections_get() of line 62
    prepared,         \* nm_apply: the PerparedNmConnections
    deact_first,      \* nm_apply: nm_conns_to_deactivate_first
    mptcp_supported   \* nm_apply: is_mptcp_supported() of line 58

vars == <<merged, profiles, active, devices, backend_mptcp, checkpoint, pc,
          res, log, all_nm_conns, uuids_to_delete, nm_devs, todo,
          exist_nm_conns, nm_acs, prepared, deact_first, mptcp_supported>>

backend == <<profiles, active, devices, backend_mptcp>>
locals == <<all_nm_conns, uuids_to_delete, nm_devs, exist_nm_conns, nm_acs,
            prepared, deact_first, mptcp_supported>>

(***************************************************************************)
(* Bounds of the model.                                                    *)
(***************************************************************************)
MaxProfiles == 3
MaxIfaces == 2

None == "none"

NM_SETTING_OVS_PORT_SETTING_NAME == "ovs-port"

(***************************************************************************)
(* Generic helpers.                                                        *)
(***************************************************************************)
Range(s) == {s[i] : i \in 1..Len(s)}

RECURSIVE SetToSeq(_)
SetToSeq(S) ==
    IF S = {} THEN <<>>
    ELSE LET x == CHOOSE y \in S : TRUE IN <<x>> \o SetToSeq(S \ {x})

RemoveAt(s, i) == SubSeq(s, 1, i - 1) \o SubSeq(s, i + 1, Len(s))

(***************************************************************************)
(* Connection profiles. A profile's settings that the Pre-Deactivation     *)
(* Policy compares are its cfg; desc is a setting no check looks at.       *)
(***************************************************************************)
BaseCfg ==
    [routes |-> {"r1"}, vrf |-> "100", vlan |-> "10", vxlan |-> "20",
     veth |-> "peer0", mptcp |-> "m0", desc |-> "d0"]

Conn(uuid, name, type, ctrl, ctrl_type) ==
    [uuid |-> uuid, iface_name |-> name, iface_type |-> type,
     controller |-> ctrl, controller_type |-> ctrl_type, cfg |-> BaseCfg]

\* The profiles a backend inventory is drawn from: an OVS bridge with its
\* port and members, a Linux bridge with its ports, and a second profile of
\* eth1 whose controller reference dangles.
ProfileUniverse ==
    { Conn("u1", "br0", "ovs-bridge", None, None),
      Conn("u2", "p0", "ovs-port", "u1", "ovs-bridge"),
      Conn("u3", "ovs0", "ovs-interface", "u2", "ovs-port"),
      Conn("u4", "eth1", "802-3-ethernet", "u2", "ovs-port"),
      Conn("u5", "br0", "bridge", None, None),
      Conn("u6", "eth2", "802-3-ethernet", "u5", "bridge"),
      Conn("u7", "eth1", "802-3-ethernet", "u5", "bridge"),
      Conn("u8", "p1", "ovs-port", "u1", "ovs-bridge"),
      Conn("u9", "ovs0", "ovs-interface", "u0", "ovs-port") }

Uuids(conns) == {c.uuid : c \in conns} \ {None}

(***************************************************************************)
(* Interfaces of the merged state. state is "up", "down" or "absent";      *)
(* change names the setting the desired state changes on an interface      *)
(* that stays up.                                                          *)
(***************************************************************************)
Iface(name, type, changed, state, change) ==
    [name |-> name, type |-> type, changed |-> changed, state |-> state,
     change |-> change]

is_changed(i) == i.changed
is_absent(i) == i.state = "absent"
is_down(i) == i.state = "down"
is_up(i) == i.state = "up"

\* Interfaces with no physical existence of their own.
is_virtual(i) == i.type \in {"linux-bridge", "ovs-bridge", "ovs-interface", "other"}

\* merged_state.interfaces.kernel_ifaces: an OVS bridge is a user space
\* interface, every other type a kernel one.
kernel_ifaces(ifaces) == {i \in ifaces : i.type # "ovs-bridge"}

\* settings::iface_type_to_nm: the backend's name of an interface type, or
\* an error for a type the backend has no profile type for.
iface_type_to_nm(t) ==
    CASE t = "linux-bridge" -> [ok |-> TRUE, v |-> "bridge"]
      [] t = "ethernet" -> [ok |-> TRUE, v |-> "802-3-ethernet"]
      [] t = "ovs-bridge" -> [ok |-> TRUE, v |-> "ovs-bridge"]
      [] t = "ovs-interface" -> [ok |-> TRUE, v |-> "ovs-interface"]
      [] OTHER -> [ok |-> FALSE, v |-> None]

\* create_index_for_nm_conns_by_name_type: the profiles under each
\* (interface name, backend type).
create_index_for_nm_conns_by_name_type(conns) ==
    [k \in {<<c.iface_name, c.iface_type>> : c \in conns} |->
        {c \in conns : c.iface_name = k[1] /\ c.iface_type = k[2]}]

(***************************************************************************)
(* delete_ifaces, lines 166-219: the profiles one absent interface selects *)
(* and the uuids they mark.                                                *)
(***************************************************************************)
AbsentIfaces(ms) == {i \in ms.ifaces : is_changed(i) /\ is_absent(i)}

\* NmConnsToDelete with an unknown type selecting Linux bridge profiles only.
NmConnsToDeleteBridgeOnly(iface, conns) ==
    LET t == IF iface.type = "unknown" THEN [ok |-> TRUE, v |-> "bridge"]
             ELSE iface_type_to_nm(iface.type)
    IN IF ~t.ok THEN [ok |-> FALSE, conns |-> {}]
       ELSE [ok |-> TRUE,
             conns |-> {c \in conns : c.iface_name = iface.name /\ c.iface_type = t.v}]

\* lines 174-188
NmConnsToDelete(iface, conns) ==
    IF iface.type = "unknown"
    THEN [ok |-> TRUE, conns |-> {c \in conns : c.iface_name = iface.name}]
    ELSE LET t == iface_type_to_nm(iface.type)
             idx == create_index_for_nm_conns_by_name_type(conns)
         IN IF ~t.ok THEN [ok |-> FALSE, conns |-> {}]
            ELSE IF <<iface.name, t.v>> \in DOMAIN idx
                 THEN [ok |-> TRUE, conns |-> idx[<<iface.name, t.v>>]]
                 ELSE [ok |-> TRUE, conns |-> {}]

\* lines 204-216: the controller a selected profile marks along with itself
MarkedController(c) ==
    IF c.controller_type = "ovs-port" /\ c.controller # None
    THEN {c.controller} ELSE {}

\* lines 190-218
MarkedUuids(selected) ==
    UNION {({c.uuid} \ {None}) \cup MarkedController(c) : c \in selected}

\* lines 164-219: the whole uuids_to_delete, or the type mapping's error
CollectUuidsToDelete(ms, conns) ==
    LET sel == [i \in AbsentIfaces(ms) |-> NmConnsToDelete(i, conns)]
    IN IF \E i \in AbsentIfaces(ms) : ~sel[i].ok
       THEN [ok |-> FALSE, uuids |-> {}]
       ELSE [ok |-> TRUE,
             uuids |-> UNION {MarkedUuids(sel[i].conns) : i \in AbsentIfaces(ms)}]

\* DeletedBeforeMappingError with each interface's profiles deleted as soon
\* as they are selected.
DeletedWhileCollecting(ms, conns) ==
    UNION {MarkedUuids(NmConnsToDelete(i, conns).conns) :
              i \in {x \in AbsentIfaces(ms) : NmConnsToDelete(x, conns).ok}}

\* lines 166-225: the uuids deleted when the type mapping of line 184 fails:
\* the loop of the delete calls starts after the collecting loop has ended
DeletedBeforeMappingError(ms, conns) == {}

(***************************************************************************)
(* delete_orphan_ports, lines 276-295: the profiles the orphan sweep marks.*)
(***************************************************************************)
IsOrphanPort(c, uuids_deleted) ==
    /\ c.iface_type = NM_SETTING_OVS_PORT_SETTING_NAME
    /\ c.controller # None
    /\ c.controller \in uuids_deleted
    /\ c.uuid # None

\* OrphanUuids with the uuids of the first loop pushed again.
OrphanUuidsWithDeleted(conns, uuids_deleted) ==
    {c.uuid : c \in {x \in conns : IsOrphanPort(x, uuids_deleted)}} \cup uuids_deleted

OrphanUuids(conns, uuids_deleted) ==
    {c.uuid : c \in {x \in conns : IsOrphanPort(x, uuids_deleted)}}

(***************************************************************************)
(* delete_remain_virtual_interface_as_desired, lines 240-253.              *)
(***************************************************************************)
RemainIfaces(ms) ==
    {i \in kernel_ifaces(ms.ifaces) :
        is_changed(i) /\ (is_absent(i) \/ is_down(i))}

(***************************************************************************)
(* The Pre-Deactivation Policy. The six checks compare the target form of  *)
(* a profile with its active form.                                         *)
(***************************************************************************)
is_route_removed(new, cur) == \E r \in cur.cfg.routes : r \notin new.cfg.routes
is_vrf_table_id_changed(new, cur) == new.cfg.vrf # cur.cfg.vrf
is_vlan_changed(new, cur) == new.cfg.vlan # cur.cfg.vlan
is_vxlan_changed(new, cur) == new.cfg.vxlan # cur.cfg.vxlan
is_veth_peer_changed(new, cur) == new.cfg.veth # cur.cfg.veth
is_mptcp_flags_changed(new, cur) == new.cfg.mptcp # cur.cfg.mptcp

\* NeedDeactivateFirst without the VXLAN check.
NeedDeactivateFirstNoVxlan(nm_conn, activated_nm_con) ==
    \/ is_route_removed(nm_conn, activated_nm_con)
    \/ is_vrf_table_id_changed(nm_conn, activated_nm_con)
    \/ is_vlan_changed(nm_conn, activated_nm_con)
    \/ is_veth_peer_changed(nm_conn, activated_nm_con)
    \/ is_mptcp_flags_changed(nm_conn, activated_nm_con)

\* NeedDeactivateFirst holding of every pair of the same uuid.
NeedDeactivateFirstAlways(nm_conn, activated_nm_con) == TRUE

\* lines 326-331
NeedDeactivateFirst(nm_conn, activated_nm_con) ==
    \/ is_route_removed(nm_conn, activated_nm_con)
    \/ is_vrf_table_id_changed(nm_conn, activated_nm_con)
    \/ is_vlan_changed(nm_conn, activated_nm_con)
    \/ is_vxlan_changed(nm_conn, activated_nm_con)
    \/ is_veth_peer_changed(nm_conn, activated_nm_con)
    \/ is_mptcp_flags_changed(nm_conn, activated_nm_con)

\* lines 317-324: the first active profile of that uuid, as a sequence of
\* at most one profile
RECURSIVE FindActivated(_, _)
FindActivated(activated_nm_conns, uuid) ==
    IF activated_nm_conns = <<>> THEN <<>>
    ELSE IF Head(activated_nm_conns).uuid # None
            /\ Head(activated_nm_conns).uuid = uuid
         THEN <<Head(activated_nm_conns)>>
         ELSE FindActivated(Tail(activated_nm_conns), uuid)

\* lines 316-335: what one profile to activate pushes to ret
DeactivateFirstOf(nm_conn, activated_nm_conns) ==
    IF nm_conn.uuid = None THEN <<>>
    ELSE LET found == FindActivated(activated_nm_conns, nm_conn.uuid)
         IN IF found # <<>> /\ NeedDeactivateFirst(nm_conn, found[1])
            THEN <<found[1]>> ELSE <<>>

\* lines 310-339
\* gen_nm_conn_need_to_deactivate_first returning every active profile.
EveryActivatedNmConn(nm_conns_to_activate, activated_nm_conns) ==
    activated_nm_conns

RECURSIVE gen_nm_conn_need_to_deactivate_first(_, _)
gen_nm_conn_need_to_deactivate_first(nm_conns_to_activate, activated_nm_conns) ==
    IF nm_conns_to_activate = <<>> THEN <<>>
    ELSE DeactivateFirstOf(Head(nm_conns_to_activate), activated_nm_conns)
         \o gen_nm_conn_need_to_deactivate_first(Tail(nm_conns_to_activate),
                                                 activated_nm_conns)

\* lines 105-116: the existing profiles that have an active connection
RECURSIVE ActivatedNmConns(_, _)
ActivatedNmConns(exist, acs) ==
    IF exist = <<>> THEN <<>>
    ELSE (IF Head(exist).uuid # None /\ Head(exist).uuid \in acs
          THEN <<Head(exist)>> ELSE <<>>)
         \o ActivatedNmConns(Tail(exist), acs)

(***************************************************************************)
(* Profile preparation (perpare_nm_conns): a pure function of the merged   *)
(* state, the existing profiles, the active connections and the MPTCP      *)
(* capability. An interface that is changed and up gets a target profile:  *)
(* its existing profile (the active one first) with the desired change, or *)
(* a new profile, which has no uuid until the backend stores it. A changed *)
(* interface that goes down has its active profiles deactivated.           *)
(***************************************************************************)
Changes ==
    {"same", "desc", "detach", "route_removed", "route_added", "vrf", "vlan",
     "vxlan", "veth", "mptcp"}

ApplyChange(c, change, mptcp_ok) ==
    CASE change = "desc" -> [c EXCEPT !.cfg.desc = "d1"]
      [] change = "detach" ->
            [c EXCEPT !.controller = None, !.controller_type = None]
      [] change = "route_removed" -> [c EXCEPT !.cfg.routes = {}]
      [] change = "route_added" -> [c EXCEPT !.cfg.routes = {"r1", "r2"}]
      [] change = "vrf" -> [c EXCEPT !.cfg.vrf = "101"]
      [] change = "vlan" -> [c EXCEPT !.cfg.vlan = "11"]
      [] change = "vxlan" -> [c EXCEPT !.cfg.vxlan = "21"]
      [] change = "veth" -> [c EXCEPT !.cfg.veth = "peer1"]
      [] change = "mptcp" /\ mptcp_ok -> [c EXCEPT !.cfg.mptcp = "m1"]
      [] OTHER -> c

ExistingOf(iface, exist, acs) ==
    LET t == iface_type_to_nm(iface.type).v
        own == {c \in Range(exist) : c.iface_name = iface.name /\ c.iface_type = t}
        up == {c \in own : c.uuid \in acs}
    IN IF up # {} THEN {CHOOSE c \in up : TRUE}
       ELSE IF own # {} THEN {CHOOSE c \in own : TRUE}
       ELSE {}

TargetOf(iface, exist, acs, mptcp_ok) ==
    LET cur == ExistingOf(iface, exist, acs)
    IN IF cur = {}
       THEN ApplyChange(Conn(None, iface.name, iface_type_to_nm(iface.type).v,
                             None, None), iface.change, mptcp_ok)
       ELSE ApplyChange(CHOOSE c \in cur : TRUE, iface.change, mptcp_ok)

perpare_nm_conns(ms, exist, acs, mptcp_ok) ==
    LET up == {i \in ms.ifaces : is_changed(i) /\ is_up(i)}
        down == {i \in ms.ifaces : is_changed(i) /\ is_down(i)}
        bad == {i \in up \cup down : ~iface_type_to_nm(i.type).ok}
        targets == SetToSeq({TargetOf(i, exist, acs, mptcp_ok) : i \in up})
        stop == {c \in Range(exist) :
                    /\ c.uuid \in acs
                    /\ \E i \in down : /\ c.iface_name = i.name
                                       /\ c.iface_type = iface_type_to_nm(i.type).v}
    IN IF bad # {}
       THEN [ok |-> FALSE, to_store |-> <<>>, to_activate |-> <<>>,
             to_deactivate |-> <<>>]
       ELSE [ok |-> TRUE, to_store |-> targets, to_activate |-> targets,
             to_deactivate |-> SetToSeq(stop)]

NoPrepared ==
    [ok |-> FALSE, to_store |-> <<>>, to_activate |-> <<>>, to_deactivate |-> <<>>]

(***************************************************************************)
(* The collaborators of steps 10 to 13, as the lists of backend calls      *)
(* they issue.                                                             *)
(***************************************************************************)
\* delete_exist_profiles: every existing profile not present in to_store
StaleUuids(exist, to_store) ==
    SetToSeq(Uuids(Range(exist)) \ Uuids(Range(to_store)))

\* delete_orphan_ovs_ports: the OVS port profiles that a profile to
\* activate has left and that no other existing profile is a member of
OrphanOvsPortUuids(exist, to_activate) ==
    SetToSeq({p.uuid : p \in {x \in Range(exist) :
        /\ x.iface_type = NM_SETTING_OVS_PORT_SETTING_NAME
        /\ \E t \in Range(to_activate) : \E e \in Range(exist) :
              /\ t.uuid # None /\ e.uuid = t.uuid
              /\ e.controller = x.uuid /\ t.controller # x.uuid
        /\ Cardinality({e \in Range(exist) : e.controller = x.uuid}) = 1}})

(***************************************************************************)
(* The backend.                                                            *)
(***************************************************************************)
\* the uuid the backend gives a profile stored without one, a new one for
\* each interface name and type
FreshUuid(c) == "u-" \o c.iface_name \o "-" \o c.iface_type

\* connection_delete: deleting a profile also ends its active connection
ConnectionDeleted(ps, uuid) == {c \in ps : c.uuid # uuid}

\* connection_add: a profile is stored under its uuid, replacing the stored
\* form of that uuid; a profile without one is given a fresh uuid
ConnectionStored(ps, c) ==
    IF c.uuid = None THEN ps \cup {[c EXCEPT !.uuid = FreshUuid(c)]}
    ELSE {x \in ps : x.uuid # c.uuid} \cup {c}

(***************************************************************************)
(* The control flow of nm_apply.                                           *)
(***************************************************************************)
\* RunsDeleteIfaces without the test of the mode.
RunsDeleteIfacesInEveryMode(ms) == TRUE

\* line 38
RunsDeleteIfaces(ms) == ~ms.memory_only

\* lines 42-56: the hostname to push, if any
HostnameToSet(ms) ==
    IF ms.hostname # None /\ ~ms.memory_only THEN {ms.hostname} ELSE {}

\* lines 68-70: store_route_config and store_route_rule_config work on the
\* merged state alone; route_fit says which of them, if any, fails on it
RouteConfigCalls(ms) ==
    CASE ms.route_fit = "route" -> <<[op |-> "store_route_config", ok |-> FALSE]>>
      [] ms.route_fit = "rule" -> <<[op |-> "store_route_config", ok |-> TRUE],
                                    [op |-> "store_route_rule_config", ok |-> FALSE]>>
      [] OTHER -> <<[op |-> "store_route_config", ok |-> TRUE],
                    [op |-> "store_route_rule_config", ok |-> TRUE]>>

\* NeedsDnsPurge without the test of the interfaces that hold the DNS.
NeedsDnsPurgeOnChangeOnly(ms) == ms.dns_changed

\* lines 72-73
NeedsDnsPurge(ms) == ms.dns_changed \/ ~ms.dns_valid

\* line 78: `if let Err(e)`, whatever the error
FallsBackToGlobalDns(outcome) == outcome # "ok"

\* store_dns_config_to_iface(&mut merged_state): when the DNS fits, the
\* interfaces of the merged state are given the desired servers and
\* searches; when it fails no interface is given any of them
store_dns_config_to_iface(ms) ==
    IF ms.dns_fit = "ok"
    THEN [ok |-> TRUE,
          ms |-> [ms EXCEPT !.iface_dns = ms.dns_servers \o ";" \o ms.dns_searches]]
    ELSE [ok |-> FALSE, ms |-> [ms EXCEPT !.iface_dns = None]]

\* GlobalDnsArgs with the first server only and no search domain.
GlobalDnsArgsFirstServer(ms) == <<"192.0.2.1", None>>

\* lines 86-90: what store_dns_config_via_global_api is called with
GlobalDnsArgs(ms) == <<ms.dns_servers, ms.dns_searches>>

\* line 129: save_nm_profiles(.., merged_state.memory_only)
StoreMode(ms) == IF ms.memory_only THEN "memory" ELSE "persistent"

\* NextPhase with the activation issued before the profiles are stored.
NextPhaseActivateBeforeSave(p, ms) ==
    CASE p = "prepare" -> "deactivate_first"
      [] p = "deactivate_first" -> "activate"
      [] p = "activate" -> "save"
      [] p = "save" -> IF ms.memory_only THEN "deactivate" ELSE "delete_exist"
      [] p = "delete_exist" -> "delete_orphan_ovs"
      [] p = "delete_orphan_ovs" -> "deactivate"
      [] OTHER -> "return"

\* NextPhase with the activation issued before the stale profiles are removed.
NextPhaseActivateBeforeDelete(p, ms) ==
    CASE p = "prepare" -> "deactivate_first"
      [] p = "deactivate_first" -> "save"
      [] p = "save" -> "activate"
      [] p = "activate" -> IF ms.memory_only THEN "deactivate" ELSE "delete_exist"
      [] p = "delete_exist" -> "delete_orphan_ovs"
      [] p = "delete_orphan_ovs" -> "deactivate"
      [] OTHER -> "return"

\* NextPhase with the profiles stored before the pre-deactivation.
NextPhaseSaveBeforeDeactivate(p, ms) ==
    CASE p = "prepare" -> "save"
      [] p = "save" -> "deactivate_first"
      [] p = "deactivate_first" ->
            IF ms.memory_only THEN "activate" ELSE "delete_exist"
      [] p = "delete_exist" -> "delete_orphan_ovs"
      [] p = "delete_orphan_ovs" -> "activate"
      [] p = "activate" -> "deactivate"
      [] OTHER -> "return"

\* lines 93-153: the step that follows profile preparation and each of the
\* steps 9 to 13
NextPhase(p, ms) ==
    CASE p = "prepare" -> "deactivate_first"
      [] p = "deactivate_first" -> "save"
      [] p = "save" -> IF ms.memory_only THEN "activate" ELSE "delete_exist"
      [] p = "delete_exist" -> "delete_orphan_ovs"
      [] p = "delete_orphan_ovs" -> "activate"
      [] p = "activate" -> "deactivate"
      [] OTHER -> "return"

\* lines 121-151: what each of these steps is called with
PhaseItems(p, prep, first, exist) ==
    CASE p = "deactivate_first" -> first
      [] p = "save" -> prep.to_store
      [] p = "delete_exist" -> StaleUuids(exist, prep.to_store)
      [] p = "delete_orphan_ovs" -> OrphanOvsPortUuids(exist, prep.to_activate)
      [] p = "activate" -> prep.to_activate
      [] p = "deactivate" -> prep.to_deactivate
      [] OTHER -> <<>>

\* A step called with an empty list issues no call: the first step from p
\* on that has a call to issue.
RECURSIVE FirstPhase(_, _, _, _, _)
FirstPhase(p, ms, prep, first, exist) ==
    IF p = "return" \/ PhaseItems(p, prep, first, exist) # <<>> THEN p
    ELSE FirstPhase(NextPhase(p, ms), ms, prep, first, exist)

Call(op, arg, arg2, ok) ==
    [op |-> op, arg |-> arg, arg2 |-> arg2, ok |-> ok, step |-> pc]

\* Abort with the error logged and the routine going on.
AbortIgnored(entry) ==
    /\ log' = Append(log, entry)
    /\ res' = res
    /\ pc' = IF pc = "hostname" THEN "connections_get" ELSE "done"

\* `?`: the error is returned at once
Abort(entry) ==
    /\ log' = Append(log, entry)
    /\ res' = "err"
    /\ pc' = "done"

Goto(p) == pc' = p /\ res' = res

\* The loop of a step of lines 121-151 goes on with `rest`, or the step is over.
Advance(rest) ==
    IF rest # <<>> THEN Goto(pc) /\ todo' = rest
    ELSE LET p == FirstPhase(NextPhase(pc, merged), merged, prepared,
                             deact_first, exist_nm_conns)
         IN Goto(p) /\ todo' = PhaseItems(p, prepared, deact_first, exist_nm_conns)

(***************************************************************************)
(* nm_apply, lines 34-40.                                                  *)
(***************************************************************************)
NmApiNew ==
    /\ pc = "start"
    /\ \E ok \in BOOLEAN :
        IF ok
        THEN /\ checkpoint' = [checkpoint EXCEPT !.set = TRUE, !.auto_refresh = TRUE]
             /\ log' = Append(log, Call("nm_api_new", None, None, TRUE))
             /\ Goto(IF RunsDeleteIfaces(merged) THEN "delete_ifaces" ELSE "hostname")
        ELSE /\ Abort(Call("nm_api_new", None, None, FALSE))
             /\ UNCHANGED checkpoint
    /\ UNCHANGED <<merged, backend, locals, todo>>

(***************************************************************************)
(* delete_ifaces, lines 156-230.                                           *)
(***************************************************************************)
\* lines 160-219: connections_get, then the uuids to delete are collected
DeleteIfacesCollect ==
    /\ pc = "delete_ifaces"
    /\ \E ok \in BOOLEAN :
        LET r == CollectUuidsToDelete(merged, profiles)
            gone == SetToSeq(DeletedBeforeMappingError(merged, profiles))
        IN IF ~ok
           THEN /\ Abort(Call("connections_get", None, None, FALSE))
                /\ UNCHANGED <<profiles, active, all_nm_conns, uuids_to_delete, todo>>
           ELSE IF ~r.ok
           THEN /\ log' = log \o <<Call("connections_get", None, None, TRUE)>>
                              \o [k \in 1..Len(gone) |->
                                     Call("connection_delete", gone[k], None, TRUE)]
                              \o <<Call("iface_type_to_nm", None, None, FALSE)>>
                /\ profiles' = {c \in profiles : c.uuid \notin Range(gone)}
                /\ active' = active \ Range(gone)
                /\ res' = "err"
                /\ pc' = "done"
                /\ all_nm_conns' = profiles
                /\ UNCHANGED <<uuids_to_delete, todo>>
           ELSE /\ log' = Append(log, Call("connections_get", None, None, TRUE))
                /\ all_nm_conns' = profiles
                /\ uuids_to_delete' = r.uuids
                /\ todo' = SetToSeq(r.uuids)
                /\ Goto(IF r.uuids = {} THEN "orphan_get" ELSE "delete_marked")
                /\ UNCHANGED <<profiles, active>>
    /\ UNCHANGED <<merged, devices, backend_mptcp, checkpoint, nm_devs,
                   exist_nm_conns, nm_acs, prepared, deact_first, mptcp_supported>>

\* lines 221-225: the HashSet is visited in any order
DeleteMarked ==
    /\ pc = "delete_marked"
    /\ \E i \in 1..Len(todo) : \E ok \in BOOLEAN :
        IF ok
        THEN /\ profiles' = ConnectionDeleted(profiles, todo[i])
             /\ active' = active \ {todo[i]}
             /\ log' = Append(log, Call("connection_delete", todo[i], None, TRUE))
             /\ todo' = RemoveAt(todo, i)
             /\ Goto(IF Len(todo) = 1 THEN "orphan_get" ELSE "delete_marked")
        ELSE /\ Abort(Call("connection_delete", todo[i], None, FALSE))
             /\ UNCHANGED <<profiles, active, todo>>
    /\ UNCHANGED <<merged, devices, backend_mptcp, checkpoint, locals>>

\* delete_orphan_ports, lines 276-295: its own connections_get() is used here only
OrphanGet ==
    /\ pc = "orphan_get"
    /\ \E ok \in BOOLEAN :
        IF ok
        THEN /\ todo' = SetToSeq(OrphanUuids(profiles, uuids_to_delete))
             /\ log' = Append(log, Call("connections_get", None, None, TRUE))
             /\ Goto(IF OrphanUuids(profiles, uuids_to_delete) = {}
                     THEN "devices_get" ELSE "orphan_delete")
        ELSE /\ Abort(Call("connections_get", None, None, FALSE))
             /\ UNCHANGED todo
    /\ UNCHANGED <<merged, backend, checkpoint, locals>>

\* delete_orphan_ports, lines 296-300
OrphanDelete ==
    /\ pc = "orphan_delete"
    /\ \E ok \in BOOLEAN :
        IF ok
        THEN /\ profiles' = ConnectionDeleted(profiles, Head(todo))
             /\ active' = active \ {Head(todo)}
             /\ log' = Append(log, Call("connection_delete", Head(todo), None, TRUE))
             /\ todo' = Tail(todo)
             /\ Goto(IF Len(todo) = 1 THEN "devices_get" ELSE "orphan_delete")
        ELSE /\ Abort(Call("connection_delete", Head(todo), None, FALSE))
             /\ UNCHANGED <<profiles, active, todo>>
    /\ UNCHANGED <<merged, devices, backend_mptcp, checkpoint, locals>>

\* lines 249-253: the interfaces of the loop that reach a call: the type
\* mapping of a virtual interface, and device_delete if the mapping
\* succeeds and the backend has the device
RemainCalls(ms, devs) ==
    {i \in RemainIfaces(ms) :
        /\ is_virtual(i)
        /\ \/ ~iface_type_to_nm(i.type).ok
           \/ <<i.name, iface_type_to_nm(i.type).v>> \in devs}

\* delete_remain_virtual_interface_as_desired, lines 236-247
DevicesGet ==
    /\ pc = "devices_get"
    /\ \E ok \in BOOLEAN :
        IF ok
        THEN /\ nm_devs' = devices
             /\ todo' = SetToSeq(RemainCalls(merged, devices))
             /\ log' = Append(log, Call("devices_get", None, None, TRUE))
             /\ Goto(IF RemainCalls(merged, devices) = {} THEN "hostname" ELSE "remain")
        ELSE /\ Abort(Call("devices_get", None, None, FALSE))
             /\ UNCHANGED <<nm_devs, todo>>
    /\ UNCHANGED <<merged, backend, checkpoint, all_nm_conns, uuids_to_delete,
                   exist_nm_conns, nm_acs, prepared, deact_first, mptcp_supported>>

\* DeviceDeleteFailed with the error returned.
DeviceDeleteFailedReturned(rest) ==
    res' = "err" /\ pc' = "done" /\ todo' = rest

\* line 262: what a failed device_delete leads to
DeviceDeleteFailed(rest) ==
    Goto(IF rest = <<>> THEN "hostname" ELSE "remain") /\ todo' = rest

\* lines 249-266, for one interface: kernel_ifaces is visited in any order;
\* a failed device_delete is logged and the loop goes on
DeleteRemain ==
    /\ pc = "remain"
    /\ \E i \in 1..Len(todo) :
        LET iface == todo[i]
            t == iface_type_to_nm(iface.type)
            rest == RemoveAt(todo, i)
        IN IF ~t.ok
           THEN /\ Abort(Call("iface_type_to_nm", iface.name, None, FALSE))
                /\ UNCHANGED <<devices, todo>>
           ELSE \E ok \in BOOLEAN :
                /\ log' = Append(log, Call("device_delete", iface.name, t.v, ok))
                /\ IF ok
                   THEN /\ devices' = devices \ {<<iface.name, t.v>>}
                        /\ Goto(IF rest = <<>> THEN "hostname" ELSE "remain")
                        /\ todo' = rest
                   ELSE /\ devices' = devices
                        /\ DeviceDeleteFailed(rest)
    /\ UNCHANGED <<merged, profiles, active, backend_mptcp, checkpoint, locals>>

(***************************************************************************)
(* nm_apply, lines 42-103.                                                 *)
(***************************************************************************)
\* lines 42-56
SetHostname ==
    /\ pc = "hostname"
    /\ IF HostnameToSet(merged) = {}
       THEN /\ Goto("connections_get")
            /\ log' = log
       ELSE \E ok \in BOOLEAN :
            IF ok
            THEN /\ log' = Append(log, Call("hostname_set", merged.hostname, None, TRUE))
                 /\ Goto("connections_get")
            ELSE Abort(Call("hostname_set", merged.hostname, None, FALSE))
    /\ UNCHANGED <<merged, backend, checkpoint, locals, todo>>

\* ExistNmConns with the list that delete_ifaces had fetched.
ExistNmConnsOfDeleteIfaces(fetched, earlier) == SetToSeq(earlier)

\* lines 60-61: exist_nm_conns is what connections_get() returns now, not the
\* list delete_ifaces had fetched
ExistNmConns(fetched, earlier) == SetToSeq(fetched)

\* lines 58-61
ConnectionsGet ==
    /\ pc = "connections_get"
    /\ \E ok \in BOOLEAN :
        IF ok
        THEN /\ mptcp_supported' = backend_mptcp
             /\ exist_nm_conns' = ExistNmConns(profiles, all_nm_conns)
             /\ log' = Append(log, Call("connections_get", None, None, TRUE))
             /\ Goto("active_connections_get")
        ELSE /\ Abort(Call("connections_get", None, None, FALSE))
             /\ UNCHANGED <<mptcp_supported, exist_nm_conns>>
    /\ UNCHANGED <<merged, backend, checkpoint, all_nm_conns, uuids_to_delete,
                   nm_devs, todo, nm_acs, prepared, deact_first>>

\* lines 62-64
ActiveConnectionsGet ==
    /\ pc = "active_connections_get"
    /\ \E ok \in BOOLEAN :
        IF ok
        THEN /\ nm_acs' = active
             /\ log' = Append(log, Call("active_connections_get", None, None, TRUE))
             /\ Goto("route")
        ELSE /\ Abort(Call("active_connections_get", None, None, FALSE))
             /\ UNCHANGED nm_acs
    /\ UNCHANGED <<merged, backend, checkpoint, all_nm_conns, uuids_to_delete,
                   nm_devs, todo, exist_nm_conns, prepared, deact_first,
                   mptcp_supported>>

\* lines 66-70: store_route_config, then store_route_rule_config
StoreRouteConfig ==
    /\ pc = "route"
    /\ LET calls == RouteConfigCalls(merged)
           entries == [k \in 1..Len(calls) |->
                          Call(calls[k].op, None, None, calls[k].ok)]
       IN /\ log' = log \o entries
          /\ IF calls[Len(calls)].ok
             THEN Goto("dns_purge")
             ELSE res' = "err" /\ pc' = "done"
    /\ UNCHANGED <<merged, backend, checkpoint, locals, todo>>

\* lines 72-76
PurgeGlobalDns ==
    /\ pc = "dns_purge"
    /\ IF ~NeedsDnsPurge(merged)
       THEN /\ Goto("dns_store")
            /\ log' = log
       ELSE \E ok \in BOOLEAN :
            IF ok
            THEN /\ log' = Append(log, Call("purge_global_dns_config", None, None, TRUE))
                 /\ Goto("dns_store")
            ELSE Abort(Call("purge_global_dns_config", None, None, FALSE))
    /\ UNCHANGED <<merged, backend, checkpoint, locals, todo>>

\* lines 78-85: store_dns_config_to_iface works on the merged state alone;
\* dns_fit is its answer: "ok", the modeling limitation ("limit") or
\* another error ("other")
StoreDnsToIface ==
    /\ pc = "dns_store"
    /\ log' = Append(log, Call("store_dns_config_to_iface", merged.dns_fit, None,
                               store_dns_config_to_iface(merged).ok))
    /\ merged' = store_dns_config_to_iface(merged).ms
    /\ Goto(IF FallsBackToGlobalDns(merged.dns_fit) THEN "dns_global" ELSE "prepare")
    /\ UNCHANGED <<backend, checkpoint, locals, todo>>

\* lines 86-90
StoreDnsViaGlobalApi ==
    /\ pc = "dns_global"
    /\ \E ok \in BOOLEAN :
        IF ok
        THEN /\ log' = Append(log, Call("store_dns_config_via_global_api",
                                        GlobalDnsArgs(merged)[1],
                                        GlobalDnsArgs(merged)[2], TRUE))
             /\ Goto("prepare")
        ELSE Abort(Call("store_dns_config_via_global_api",
                        GlobalDnsArgs(merged)[1], GlobalDnsArgs(merged)[2], FALSE))
    /\ UNCHANGED <<merged, backend, checkpoint, locals, todo>>

\* lines 93-120: perpare_nm_conns, then gen_nm_conn_need_to_deactivate_first
PrepareNmConns ==
    /\ pc = "prepare"
    /\ LET r == perpare_nm_conns(merged, exist_nm_conns, nm_acs, mptcp_supported)
           first == gen_nm_conn_need_to_deactivate_first(
                        r.to_activate, ActivatedNmConns(exist_nm_conns, nm_acs))
           p == FirstPhase(NextPhase("prepare", merged), merged, r, first,
                           exist_nm_conns)
       IN IF r.ok
          THEN /\ prepared' = r
               /\ deact_first' = first
               /\ todo' = PhaseItems(p, r, first, exist_nm_conns)
               /\ log' = Append(log, Call("perpare_nm_conns", None, None, TRUE))
               /\ Goto(p)
          ELSE /\ Abort(Call("perpare_nm_conns", None, None, FALSE))
               /\ UNCHANGED <<prepared, deact_first, todo>>
    /\ UNCHANGED <<merged, backend, checkpoint, all_nm_conns, uuids_to_delete,
                   nm_devs, exist_nm_conns, nm_acs, mptcp_supported>>

(***************************************************************************)
(* nm_apply, lines 121-153: steps 9 to 13. Each step issues one backend    *)
(* call per item, in the order of its list.                                *)
(***************************************************************************)
\* deactivate_nm_profiles, lines 121-124 and line 151
DeactivateNmProfiles ==
    /\ pc \in {"deactivate_first", "deactivate"}
    /\ \E ok \in BOOLEAN :
        IF ok
        THEN /\ active' = active \ {Head(todo).uuid}
             /\ log' = Append(log, Call("connection_deactivate", Head(todo).uuid, None, TRUE))
             /\ Advance(Tail(todo))
        ELSE /\ Abort(Call("connection_deactivate", Head(todo).uuid, None, FALSE))
             /\ UNCHANGED <<active, todo>>
    /\ UNCHANGED <<merged, profiles, devices, backend_mptcp, checkpoint, locals>>

\* save_nm_profiles, lines 126-130
SaveNmProfiles ==
    /\ pc = "save"
    /\ \E ok \in BOOLEAN :
        IF ok
        THEN /\ profiles' = ConnectionStored(profiles, Head(todo))
             /\ log' = Append(log, Call("connection_add", Head(todo).uuid,
                                        StoreMode(merged), TRUE))
             /\ Advance(Tail(todo))
        ELSE /\ Abort(Call("connection_add", Head(todo).uuid, StoreMode(merged), FALSE))
             /\ UNCHANGED <<profiles, todo>>
    /\ UNCHANGED <<merged, active, devices, backend_mptcp, checkpoint, locals>>

\* delete_exist_profiles and delete_orphan_ovs_ports, lines 131-143
DeleteStaleProfiles ==
    /\ pc \in {"delete_exist", "delete_orphan_ovs"}
    /\ \E ok \in BOOLEAN :
        IF ok
        THEN /\ profiles' = ConnectionDeleted(profiles, Head(todo))
             /\ active' = active \ {Head(todo)}
             /\ log' = Append(log, Call("connection_delete", Head(todo), None, TRUE))
             /\ Advance(Tail(todo))
        ELSE /\ Abort(Call("connection_delete", Head(todo), None, FALSE))
             /\ UNCHANGED <<profiles, active, todo>>
    /\ UNCHANGED <<merged, devices, backend_mptcp, checkpoint, locals>>

\* activate_nm_profiles, lines 145-149
ActivateNmProfiles ==
    /\ pc = "activate"
    /\ \E ok \in BOOLEAN :
        IF ok
        THEN /\ active' = active \cup
                    {IF Head(todo).uuid = None THEN FreshUuid(Head(todo))
                     ELSE Head(todo).uuid}
             /\ log' = Append(log, Call("connection_activate", Head(todo).uuid, None, TRUE))
             /\ Advance(Tail(todo))
        ELSE /\ Abort(Call("connection_activate", Head(todo).uuid, None, FALSE))
             /\ UNCHANGED <<active, todo>>
    /\ UNCHANGED <<merged, profiles, devices, backend_mptcp, checkpoint, locals>>

\* line 153
ReturnOk ==
    /\ pc = "return"
    /\ pc' = "done"
    /\ res' = "ok"
    /\ UNCHANGED <<merged, backend, checkpoint, locals, todo, log>>

(***************************************************************************)
(* The initial states: a merged state and a backend, before nm_apply runs. *)
(***************************************************************************)
MergedState(mem, host, route_fit, dns_changed, dns_valid, dns_fit, ifaces) ==
    [memory_only |-> mem, hostname |-> host, route_fit |-> route_fit,
     dns_changed |-> dns_changed, dns_valid |-> dns_valid, dns_fit |-> dns_fit,
     dns_servers |-> "192.0.2.1,192.0.2.2", dns_searches |-> "example.org",
     iface_dns |-> None, ifaces |-> ifaces]

\* Profiles that are stored but not active: the second profiles of eth1
\* and of ovs0.
NeverActive == {"u7", "u9"}

DeviceUniverse ==
    {<<"br0", "bridge">>, <<"ovs0", "ovs-interface">>, <<"br0", "ovs-bridge">>}

\* kernel_ifaces is keyed by name, the user space interfaces by name and type
IfaceKey(i) == <<i.name, i.type = "ovs-bridge">>

IfaceSets(universe, max) ==
    {S \in SUBSET universe :
        /\ Cardinality(S) <= max
        /\ \A i, j \in S : IfaceKey(i) = IfaceKey(j) => i = j}

CascadeIfaces ==
    { Iface("br0", "linux-bridge", TRUE, "absent", "same"),
      Iface("br0", "ovs-bridge", TRUE, "absent", "same"),
      Iface("br0", "unknown", TRUE, "absent", "same"),
      Iface("ovs0", "ovs-interface", TRUE, "absent", "same"),
      Iface("ovs0", "ovs-interface", TRUE, "down", "same"),
      Iface("eth1", "ethernet", TRUE, "absent", "same"),
      Iface("tun0", "other", TRUE, "absent", "same") }

OrchestratorIfaces ==
    { { Iface("br0", "linux-bridge", TRUE, "absent", "same"),
        Iface("eth2", "ethernet", TRUE, "up", "vlan"),
        Iface("eth1", "ethernet", TRUE, "down", "same"),
        Iface("ovs0", "ovs-interface", TRUE, "down", "same") },
      { Iface("br0", "linux-bridge", FALSE, "absent", "same"),
        Iface("tun0", "other", TRUE, "down", "same") } }

PolicyIfaces ==
    {Iface(n, "ethernet", TRUE, "up", c) : n \in {"eth1", "eth2"}, c \in Changes}

InitLocals ==
    /\ checkpoint = [set |-> FALSE, auto_refresh |-> FALSE, state |-> "open"]
    /\ pc = "start"
    /\ res = "running"
    /\ log = <<>>
    /\ all_nm_conns = {}
    /\ uuids_to_delete = {}
    /\ nm_devs = {}
    /\ todo = <<>>
    /\ exist_nm_conns = <<>>
    /\ nm_acs = {}
    /\ prepared = NoPrepared
    /\ deact_first = <<>>
    /\ mptcp_supported = FALSE

InitBackend(inv, devs, mptcp) ==
    /\ profiles = inv
    /\ active = Uuids(inv) \ NeverActive
    /\ devices = devs
    /\ backend_mptcp = mptcp

\* The inventories of the Deletion Cascade: an OVS bridge with its ports and
\* their members, and a Linux bridge with its ports beside an OVS bridge of
\* the same name.
CascadeTopologies ==
    { {c \in ProfileUniverse : c.uuid \in {"u1", "u2", "u3", "u4", "u8", "u9"}},
      {c \in ProfileUniverse : c.uuid \in {"u1", "u5", "u6", "u7"}} }

\* Inventories and absent interfaces of every shape.
InitCascade ==
    /\ \E topology \in CascadeTopologies :
       \E inv \in {S \in SUBSET topology : Cardinality(S) <= MaxProfiles} :
          InitBackend(inv, DeviceUniverse, TRUE)
    /\ \E ifaces \in IfaceSets(CascadeIfaces, MaxIfaces) :
          merged = MergedState(FALSE, None, "ok", FALSE, TRUE, "ok", ifaces)

\* Every mode, hostname, route and DNS situation, on a Linux bridge that is
\* removed while a port of it is changed and another interface goes down.
InitOrchestrator ==
    /\ \E devs \in {{}, DeviceUniverse} :
          InitBackend({c \in ProfileUniverse : c.uuid \in {"u4", "u5", "u6"}},
                      devs, TRUE)
    /\ \E mem \in BOOLEAN : \E host \in {None, "host1"} :
       \E route_fit \in {"ok", "route", "rule"} :
       \E dns_changed \in BOOLEAN : \E dns_valid \in BOOLEAN :
       \E dns_fit \in {"ok", "limit", "other"} :
       \E ifaces \in OrchestratorIfaces :
          merged = MergedState(mem, host, route_fit, dns_changed, dns_valid,
                               dns_fit, ifaces)

\* Every change of the profiles to activate.
InitPolicy ==
    /\ \E ids \in {{"u2", "u4", "u6", "u7"}, {"u6", "u7"}, {"u2"}} :
       \E inv \in {{c \in ProfileUniverse : c.uuid \in ids}} :
       \E mptcp \in BOOLEAN :
          InitBackend(inv, {}, mptcp)
    /\ \E ifaces \in IfaceSets(PolicyIfaces, MaxIfaces) : \E mem \in BOOLEAN :
          /\ ifaces # {}
          /\ merged = MergedState(mem, None, "ok", FALSE, TRUE, "ok", ifaces)

Init == InitLocals /\ (InitCascade \/ InitOrchestrator \/ InitPolicy)

Next ==
    \/ NmApiNew
    \/ DeleteIfacesCollect
    \/ DeleteMarked
    \/ OrphanGet
    \/ OrphanDelete
    \/ DevicesGet
    \/ DeleteRemain
    \/ SetHostname
    \/ ConnectionsGet
    \/ ActiveConnectionsGet
    \/ StoreRouteConfig
    \/ PurgeGlobalDns
    \/ StoreDnsToIface
    \/ StoreDnsViaGlobalApi
    \/ PrepareNmConns
    \/ DeactivateNmProfiles
    \/ SaveNmProfiles
    \/ DeleteStaleProfiles
    \/ ActivateNmProfiles
    \/ ReturnOk

Spec == Init /\ [][Next]_vars

(***************************************************************************)
(* Properties.                                                             *)
(***************************************************************************)
Calls(op) == {i \in 1..Len(log) : log[i].op = op}
CallsOf(op, steps) == {i \in Calls(op) : log[i].step \in steps}

\* The steps 9 to 13, in the order of section 4.1.
PhaseRank(step) ==
    CASE step = "deactivate_first" -> 1
      [] step = "save" -> 2
      [] step = "delete_exist" -> 3
      [] step = "delete_orphan_ovs" -> 4
      [] step = "activate" -> 5
      [] step = "deactivate" -> 6
      [] OTHER -> 0

PhaseCalls == {i \in 1..Len(log) : PhaseRank(log[i].step) > 0}

\* C1: the backend calls of steps 9 to 13 are issued phase after phase:
\* pre-deactivations, stores, stale-profile deletions, orphan-port
\* cleanup, activations, deactivations. Each phase issues only its own kind
\* of call; a profile that needs pre-deactivation is deactivated before
\* its updated form is stored or activated; no activate call precedes a
\* store call.
C1_PhasesInOrder ==
    /\ \A i, j \in PhaseCalls :
          i < j => PhaseRank(log[i].step) <= PhaseRank(log[j].step)
    /\ \A i \in PhaseCalls :
          log[i].op = CASE log[i].step \in {"deactivate_first", "deactivate"} ->
                               "connection_deactivate"
                        [] log[i].step = "save" -> "connection_add"
                        [] log[i].step = "activate" -> "connection_activate"
                        [] OTHER -> "connection_delete"
    /\ \A c \in Range(deact_first) :
       \A i \in Calls("connection_add") \cup Calls("connection_activate") :
          log[i].arg = c.uuid =>
             \E j \in Calls("connection_deactivate") :
                j < i /\ log[j].arg = c.uuid /\ log[j].ok
    /\ \A i \in Calls("connection_activate") :
       \A j \in Calls("connection_add") : j < i

C1_Witness ==
    /\ res = "ok"
    /\ CallsOf("connection_deactivate", {"deactivate_first"}) # {}
    /\ Calls("connection_add") # {}
    /\ CallsOf("connection_delete", {"delete_exist"}) # {}
    /\ Calls("connection_activate") # {}
    /\ CallsOf("connection_deactivate", {"deactivate"}) # {}

\* The calls that change a connection profile.
ProfileMutations == Calls("connection_delete") \cup Calls("connection_add")

\* C2, as claimed: every deactivate call of the pre-deactivation set is
\* issued before every profile delete and every profile store of the apply.
C2_DeactivateBeforeAnyMutation ==
    \A j \in CallsOf("connection_deactivate", {"deactivate_first"}) :
    \A i \in ProfileMutations : j < i

\* C2, amended: every deactivate call of the pre-deactivation set is issued
\* before every profile store, stale-profile removal and orphan-port
\* cleanup of the apply, and after every profile delete of the Deletion
\* Cascade.
C2_DeactivateBeforeStore ==
    \A j \in CallsOf("connection_deactivate", {"deactivate_first"}) :
    \A i \in ProfileMutations :
       IF log[i].step \in {"delete_marked", "orphan_delete"} THEN i < j ELSE j < i

C2_Witness ==
    /\ CallsOf("connection_delete", {"delete_marked"}) # {}
    /\ CallsOf("connection_deactivate", {"deactivate_first"}) # {}
    /\ Calls("connection_add") # {}
    /\ CallsOf("connection_delete", {"delete_exist"}) # {}

\* The calls whose failure nm_apply does not return: a failed device
\* delete is logged, a failed per-interface DNS storage falls back.
Tolerated == {"device_delete", "store_dns_config_to_iface"}

\* C3: a failed backend call or collaborator is the last call nm_apply
\* issues, and nm_apply returns an error; nm_apply returns an error only
\* then; the checkpoint is set on the NmApi and never confirmed, destroyed
\* or rolled back, on any exit path.
C3_FailureAborts ==
    /\ \A i \in 1..Len(log) :
          (~log[i].ok /\ log[i].op \notin Tolerated) =>
             i = Len(log) /\ res = "err" /\ pc = "done"
    /\ res = "err" =>
          /\ log # <<>>
          /\ ~log[Len(log)].ok
          /\ log[Len(log)].op \notin Tolerated
    /\ checkpoint.state = "open"
    /\ \A i \in 1..Len(log) :
          log[i].op \notin {"checkpoint_destroy", "checkpoint_rollback",
                            "checkpoint_confirm"}

C3_Witness ==
    /\ res = "err"
    /\ log[Len(log)].op = "hostname_set"
    /\ Calls("connection_delete") # {}
    /\ checkpoint.set

\* C4: in memory-only mode no profile is deleted (Deletion Cascade, stale
\* profiles, orphan ports), no device is deleted, the hostname is not set,
\* and every profile is stored non-persistently.
C4_MemoryOnly ==
    merged.memory_only =>
        /\ Calls("connection_delete") = {}
        /\ Calls("device_delete") = {}
        /\ Calls("hostname_set") = {}
        /\ \A i \in Calls("connection_add") : log[i].arg2 = "memory"

C4_Witness ==
    /\ merged.memory_only
    /\ res = "ok"
    /\ merged.hostname # None
    /\ AbsentIfaces(merged) # {}
    /\ StaleUuids(exist_nm_conns, prepared.to_store) # <<>>
    /\ Calls("connection_add") # {}

\* The existing profiles that have an active connection.
ActiveForms == {c \in Range(exist_nm_conns) : c.uuid # None /\ c.uuid \in nm_acs}

\* C5: the pre-deactivation set is exactly the active forms whose uuid is
\* that of a profile to activate for which one of the six checks holds
\* between the target and the active form.
C5_DeactivateFirstExact ==
    prepared.ok =>
        Range(deact_first) =
            {c \in ActiveForms :
                \E t \in Range(prepared.to_activate) :
                    /\ t.uuid # None
                    /\ t.uuid = c.uuid
                    /\ \/ is_route_removed(t, c)
                       \/ is_vrf_table_id_changed(t, c)
                       \/ is_vlan_changed(t, c)
                       \/ is_vxlan_changed(t, c)
                       \/ is_veth_peer_changed(t, c)
                       \/ is_mptcp_flags_changed(t, c)}

C5_Witness ==
    /\ prepared.ok
    /\ Len(deact_first) = 1
    /\ Len(prepared.to_activate) = 2
    /\ \E t \in Range(prepared.to_activate) :
          /\ t.uuid # None
          /\ t.uuid \notin Uuids(Range(deact_first))
          /\ \E c \in ActiveForms : c.uuid = t.uuid /\ c # t

(***************************************************************************)
(* Properties of the Deletion Cascade and of the DNS fallback.             *)
(***************************************************************************)
\* delete_ifaces has returned Ok
CascadeDone == pc = "hostname" /\ ~merged.memory_only

\* The uuids whose profile delete_ifaces has deleted.
CascadeDeleted ==
    {log[i].arg : i \in CallsOf("connection_delete", {"delete_marked", "orphan_delete"})}

\* The profiles of the fetched inventory that an absent interface selects.
Selects(iface, c) ==
    /\ c.iface_name = iface.name
    /\ \/ iface.type = "unknown"
       \/ c.iface_type = iface_type_to_nm(iface.type).v

SelectedProfiles ==
    {c \in all_nm_conns : \E i \in AbsentIfaces(merged) : Selects(i, c)}

\* C6: once the Deletion Cascade has succeeded, no backend profile has the
\* name of a changed absent interface of unknown type, whatever its type;
\* and the uuids the first loop marks are those of the profiles an absent
\* interface selects by name (unknown type) or by name and mapped type
\* (known type), with the controller of those whose controller is an OVS
\* port.
C6_UnknownTypeDeletesByName ==
    /\ CascadeDone =>
          \A i \in AbsentIfaces(merged) : i.type = "unknown" =>
             /\ \A c \in profiles : c.iface_name # i.name
             /\ \A c \in all_nm_conns :
                   c.iface_name = i.name => c.uuid \in CascadeDeleted
    /\ pc \in {"delete_marked", "orphan_get"} =>
          uuids_to_delete =
             {u \in Uuids(SelectedProfiles) \cup {c.controller : c \in SelectedProfiles} :
                 \E c \in SelectedProfiles :
                    \/ u = c.uuid
                    \/ u = c.controller /\ c.controller_type = "ovs-port"}

C6_Witness ==
    /\ CascadeDone
    /\ \E i \in AbsentIfaces(merged) :
          /\ i.type = "unknown"
          /\ \E c, d \in all_nm_conns :
                /\ c.iface_name = i.name
                /\ d.iface_name = i.name
                /\ c.iface_type # d.iface_type
                /\ {c.uuid, d.uuid} \subseteq CascadeDeleted
    /\ \E c \in profiles : TRUE

\* C7: once the Deletion Cascade has succeeded, no remaining backend
\* profile has a controller that the cascade deleted, and the orphan sweep
\* run again with all the uuids deleted so far finds nothing to delete.
C7_OrphanClosure ==
    CascadeDone =>
        /\ \A c \in profiles : c.controller \notin CascadeDeleted
        /\ OrphanUuids(profiles, CascadeDeleted) = {}

\* The profiles of the fetched inventory whose controller is the profile b.
PortsOf(b) == {c \in all_nm_conns : c.controller = b.uuid}

\* C8: Scenario A: once the Deletion Cascade has succeeded on an absent
\* bridge interface whose profile is the controller of two port profiles,
\* the bridge profile and both port profiles are deleted, and device_delete
\* has been called for the bridge's device if the backend reported it.
C8_ScenarioA ==
    CascadeDone =>
        \A i \in AbsentIfaces(merged) :
        \A b \in all_nm_conns :
            (/\ i.type \in {"linux-bridge", "ovs-bridge"}
             /\ Selects(i, b)
             /\ Cardinality(PortsOf(b)) = 2) =>
                /\ Uuids({b} \cup PortsOf(b)) \cap Uuids(profiles) = {}
                /\ <<i.name, b.iface_type>> \in nm_devs =>
                      \E k \in Calls("device_delete") : log[k].arg = i.name

\* The profiles the first loop deletes though no absent interface selects
\* them: the OVS port controllers of the selected profiles.
CollateralDeleted ==
    {c \in all_nm_conns \ SelectedProfiles : c.uuid \in uuids_to_delete}

\* C9: once the Deletion Cascade has succeeded, no profile that it deleted
\* as the controller of a selected profile is still the controller of a
\* remaining profile, that is of a profile of an interface that is not
\* removed.
C9_OnlyAbsentState ==
    CascadeDone =>
        \A d \in CollateralDeleted :
        \A c \in profiles : c.controller # d.uuid

\* C10: store_dns_config_via_global_api is called only after the
\* per-interface DNS storage has failed with the modeling limitation, and
\* any other failure of the per-interface DNS storage is returned at once.
C10_FallbackOnlyOnLimitation ==
    /\ Calls("store_dns_config_via_global_api") # {} => merged.dns_fit = "limit"
    /\ \A i \in Calls("store_dns_config_to_iface") :
          log[i].arg = "other" => i = Len(log) /\ res = "err"

(***************************************************************************)
(* Properties of the DNS steps.                                            *)
(***************************************************************************)
\* The per-interface DNS storage has failed with the modeling limitation.
DnsLimitationHit ==
    \E i \in Calls("store_dns_config_to_iface") : log[i].arg = "limit" /\ ~log[i].ok

\* nm_apply has reached or passed the call of perpare_nm_conns.
ReachedPrepare == pc = "prepare" \/ Calls("perpare_nm_conns") # {}

ApplyAgain ==
    /\ pc = "done"
    /\ res = "ok"
    /\ \A i \in 1..Len(log) : log[i].op # "nm_apply"
    /\ log' = Append(log, Call("nm_apply", None, None, TRUE))
    /\ merged' = [merged EXCEPT !.iface_dns = None]
    /\ checkpoint' = [set |-> FALSE, auto_refresh |-> FALSE, state |-> "open"]
    /\ pc' = "start"
    /\ res' = "running"
    /\ all_nm_conns' = {}
    /\ uuids_to_delete' = {}
    /\ nm_devs' = {}
    /\ todo' = <<>>
    /\ exist_nm_conns' = <<>>
    /\ nm_acs' = {}
    /\ prepared' = NoPrepared
    /\ deact_first' = <<>>
    /\ mptcp_supported' = FALSE
    /\ UNCHANGED backend

NextTwice == Next \/ ApplyAgain

SpecTwice == Init /\ [][NextTwice]_vars

\* The calls of the second pass.
SecondPass == Calls("nm_apply") # {}
SecondCalls(op) == {i \in Calls(op) : \E k \in Calls("nm_apply") : k < i}

StaleRemaining ==
    {c \in profiles :
        /\ c.uuid \in Uuids(Range(exist_nm_conns))
        /\ c.uuid \notin Uuids(Range(prepared.to_store))}

\* The activation step is about to issue a call or has issued one.
Activating == pc = "activate" \/ Calls("connection_activate") # {}

\* A profile to activate that a stale profile remaining in the backend
\* shares its interface name and type with.
StaleTwinRemains ==
    \E t \in Range(prepared.to_activate) : \E c \in StaleRemaining :
        c.iface_name = t.iface_name /\ c.iface_type = t.iface_type

\* C13, as claimed: in every mode, when a profile is activated no stale
\* profile of the same interface name and type remains in the backend.
C13_NoStaleTwinInAnyMode == Activating => ~StaleTwinRemains

\* C13, amended: in persistent mode, when a profile is activated no stale
\* profile of the same interface name and type remains in the backend; in
\* memory-only mode no stale profile is removed, so every stale profile
\* that the inventory had is still there.
C13_NoStaleTwinWhenPersistent ==
    Activating =>
        IF merged.memory_only
        THEN \A c \in Range(exist_nm_conns) :
                c.uuid \notin Uuids(Range(prepared.to_store)) => c \in profiles
        ELSE ~StaleTwinRemains

C13_Witness ==
    /\ ~merged.memory_only
    /\ Calls("connection_activate") # {}
    /\ \E t \in Range(prepared.to_activate) : \E c \in Range(exist_nm_conns) :
          /\ c.iface_name = t.iface_name
          /\ c.iface_type = t.iface_type
          /\ c.uuid # t.uuid
          /\ \E i \in CallsOf("connection_delete", {"delete_exist"}) :
                log[i].arg = c.uuid

(***************************************************************************)
(* Properties of the residual virtual interface sweep.                     *)
(***************************************************************************)
\* The interfaces a device_delete call may be issued for, given the devices
\* the backend reported.
DeviceDeleteCandidates ==
    {i \in merged.ifaces :
        /\ i \in kernel_ifaces(merged.ifaces)
        /\ is_changed(i)
        /\ is_absent(i) \/ is_down(i)
        /\ is_virtual(i)
        /\ iface_type_to_nm(i.type).ok
        /\ <<i.name, iface_type_to_nm(i.type).v>> \in nm_devs}

\* C14: a failed device_delete is never returned: it is followed by the
\* next interface of the sweep or by the steps after delete_ifaces, and
\* once delete_ifaces has returned Ok every candidate has had its call; a
\* device_delete call is issued only for a kernel interface that is
\* changed, absent or down, virtual, and whose (name, mapped type) the
\* backend reported as a device.
C14_DeviceDeleteTolerated ==
    /\ \A k \in Calls("device_delete") :
          /\ \E i \in DeviceDeleteCandidates :
                /\ log[k].arg = i.name
                /\ log[k].arg2 = iface_type_to_nm(i.type).v
          /\ (~log[k].ok /\ k = Len(log)) =>
                res = "running" /\ pc \in {"remain", "hostname", "connections_get"}
    /\ CascadeDone =>
          \A i \in DeviceDeleteCandidates :
             \E k \in Calls("device_delete") : log[k].arg = i.name
    /\ (pc = "done" /\ res = "err") => log[Len(log)].op # "device_delete"

C14_Witness ==
    /\ res = "ok"
    /\ \E k, l \in Calls("device_delete") :
          k < l /\ ~log[k].ok /\ log[k].arg # log[l].arg
    /\ Calls("connection_add") # {}
    /\ Calls("connection_activate") # {}

(***************************************************************************)
(* Properties of the global DNS purge.                                     *)
(***************************************************************************)
DnsStoreCalls ==
    Calls("store_dns_config_to_iface") \cup Calls("store_dns_config_via_global_api")

\* C15: purge_global_dns_config is called, once, exactly when the DNS
\* changed or no interface is valid any more for the interface DNS; the
\* call precedes the per-interface DNS storage and the global DNS store;
\* otherwise it is not called.
C15_PurgeExactlyWhenNeeded ==
    /\ Cardinality(Calls("purge_global_dns_config")) <= 1
    /\ \A i \in Calls("purge_global_dns_config") :
          /\ merged.dns_changed \/ ~merged.dns_valid
          /\ \A j \in DnsStoreCalls : i < j
          /\ \A j \in Calls("store_route_rule_config") : j < i
    /\ (DnsStoreCalls # {} /\ (merged.dns_changed \/ ~merged.dns_valid)) =>
          \E i \in Calls("purge_global_dns_config") : log[i].ok
    /\ (~merged.dns_changed /\ merged.dns_valid) =>
          Calls("purge_global_dns_config") = {}

C15_Witness ==
    /\ ~merged.dns_changed
    /\ ~merged.dns_valid
    /\ Calls("purge_global_dns_config") # {}
    /\ Calls("store_dns_config_via_global_api") # {}
    /\ res = "ok"

(***************************************************************************)
(* Properties of the delete calls of the Deletion Cascade.                 *)
(***************************************************************************)
CascadeDeleteCalls ==
    CallsOf("connection_delete", {"delete_marked", "orphan_delete"})

\* The uuids that the first loop marks more than once: as the uuid of two
\* selected profiles' controller, or as a selected profile that is also
\* the controller of a selected profile.
MarkedTwice ==
    {u \in uuids_to_delete :
        \E c, d \in SelectedProfiles :
            /\ c # d
            /\ MarkedController(c) = {u}
            /\ MarkedController(d) = {u} \/ d.uuid = u}

\* C16: in one run of the Deletion Cascade connection_delete is called at
\* most once for a uuid, in the first loop and the orphan sweep together,
\* also for a uuid that is marked more than once.
C16_DeleteOncePerUuid ==
    \A i, j \in CascadeDeleteCalls : log[i].arg = log[j].arg => i = j

C16_Witness ==
    /\ CascadeDone
    /\ \E u \in MarkedTwice : \E i \in CascadeDeleteCalls : log[i].arg = u
    /\ Cardinality(CascadeDeleteCalls) = Cardinality(uuids_to_delete)
    /\ Cardinality(CascadeDeleteCalls) > 2

(***************************************************************************)
(* Properties of the inventory that steps 8 to 13 work on.                 *)
(***************************************************************************)
\* The fetches of nm_apply itself, lines 60-64.
InventoryFetches ==
    CallsOf("connections_get", {"connections_get"})
        \cup Calls("active_connections_get")

\* C17, as claimed: the inventory and the active connections that profile
\* preparation and the pre-deactivation policy, the stale-profile removal,
\* the orphan-port cleanup and the activation work on are those of the
\* backend when the step starts.
C17_ListsFreshAtUse ==
    /\ pc \in {"prepare", "delete_exist", "delete_orphan_ovs"} =>
          Range(exist_nm_conns) = profiles
    /\ pc \in {"prepare", "activate"} => nm_acs = active

\* C17, amended: nm_apply fetches the inventory and the active connections
\* once, after the Deletion Cascade and the hostname; they are those of the
\* backend when the profiles are prepared and the pre-deactivation policy
\* is applied; no step of 9 to 13 is followed by another fetch, so the
\* later steps work on these lists.
C17_ListsOfOneFetch ==
    /\ pc = "prepare" => Range(exist_nm_conns) = profiles /\ nm_acs = active
    /\ Cardinality(InventoryFetches) <= 2
    /\ \A i \in InventoryFetches :
          /\ \A j \in PhaseCalls : i < j
          /\ \A j \in CascadeDeleteCalls \cup Calls("hostname_set") : j < i
    /\ PhaseCalls # {} => Cardinality(InventoryFetches) = 2

C17_Witness ==
    /\ pc = "activate"
    /\ CascadeDeleteCalls # {}
    /\ Range(exist_nm_conns) # profiles
    /\ nm_acs # active
    /\ Cardinality(InventoryFetches) = 2

(***************************************************************************)
(* Properties of the profiles that are deactivated first.                  *)
(***************************************************************************)
DeactivatedFirst ==
    {i \in CallsOf("connection_deactivate", {"deactivate_first"}) : log[i].ok}

ActivatedAfter(i) ==
    \E j \in Calls("connection_activate") :
        j > i /\ log[j].ok /\ log[j].arg = log[i].arg

\* C18: when nm_apply returns Ok, every profile that the pre-deactivation
\* step has deactivated has been activated later, under the same uuid, and
\* is active; when nm_apply returns an error before that activation, the
\* profile is left inactive and no further call is issued.
C18_DeactivatedFirstComesBack ==
    /\ res = "ok" =>
          \A i \in DeactivatedFirst :
             ActivatedAfter(i) /\ log[i].arg \in active
    /\ res = "err" =>
          \A i \in DeactivatedFirst :
             ~ActivatedAfter(i) =>
                /\ log[i].arg \notin active
                /\ pc = "done"
                /\ \A j \in Calls("connection_activate") :
                      log[j].arg = log[i].arg => j = Len(log) /\ ~log[j].ok

C18_Witness ==
    /\ res = "ok"
    /\ Cardinality(DeactivatedFirst) = 1
    /\ Cardinality(Calls("connection_activate")) = 2
    /\ \A i \in DeactivatedFirst : ActivatedAfter(i)

(***************************************************************************)
(* Properties of a type mapping that fails in delete_ifaces.               *)
(***************************************************************************)
MappingFailedInDeleteIfaces ==
    \E i \in CallsOf("iface_type_to_nm", {"delete_ifaces"}) : ~log[i].ok

\* C19: when the type mapping fails for a changed absent interface,
\* delete_ifaces returns the error with no profile delete, no device fetch
\* and no device delete call issued, and the backend has the profiles it
\* had when the inventory was fetched.
C19_MappingErrorDeletesNothing ==
    MappingFailedInDeleteIfaces =>
        /\ Calls("connection_delete") = {}
        /\ Calls("device_delete") = {}
        /\ Calls("devices_get") = {}
        /\ profiles = all_nm_conns
        /\ res = "err"
        /\ pc = "done"
        /\ ~log[Len(log)].ok

C19_Witness ==
    /\ MappingFailedInDeleteIfaces
    /\ SelectedProfiles # {}
    /\ \E i \in AbsentIfaces(merged) :
          /\ iface_type_to_nm(i.type).ok
          /\ is_virtual(i)
          /\ <<i.name, iface_type_to_nm(i.type).v>> \in devices

(***************************************************************************)
(* Properties of the uuids that the Deletion Cascade deletes.              *)
(***************************************************************************)
\* C20: every uuid that the Deletion Cascade calls connection_delete for
\* is the uuid of a profile of the inventory that delete_ifaces fetched (the
\* orphan sweep fetches a part of it again), and no delete call of the
\* cascade fails for want of the profile.
C20_DeletesOnlyExistingProfiles ==
    \A i \in CascadeDeleteCalls :
        /\ log[i].arg \in Uuids(all_nm_conns)
        /\ ~log[i].ok => \E c \in profiles : c.uuid = log[i].arg

====
